---- MODULE Spec2Model ----
(***************************************************************************)
(* Model of src/main.rs: the BenchmarkResult decoder (FromLua), the three  *)
(* native callbacks, the benchmark chunk and the main run.                 *)
(*                                                                         *)
(* f64 values are fixed-point integers in units of 1/Scale; Lua integers   *)
(* and u32 values are plain integers.                                      *)
(***************************************************************************)
EXTENDS Integers, Sequences, FiniteSets, TLC

VARIABLES
    \* ---- main (src/main.rs 58-149)
    pc,          \* position of main
    created,     \* functions created by lua.create_function
    globals,     \* names bound in lua.globals()
    warm_i,      \* the warm-up loop's i
    evals,       \* number of chunks evaluated so far
    started,     \* Instant::now() was taken (line 129)
    duration,    \* start.elapsed() (line 131), NoDuration until taken
    result,      \* the decoded BenchmarkResult, NoResult until decoded
    error,       \* the Err main returned, NoError while none
    output,      \* the lines printed so far
    \* ---- one call of BenchmarkResult::from_lua (src/main.rs 10-56)
    value,       \* the dynamic value handed to from_lua
    decoded,     \* its outcome, Pending before the call
    \* ---- the benchmark chunk (src/main.rs 94-126)
    spc,         \* position of the chunk
    s_i,         \* the loop's i (iterations completed)
    sum,
    operations,
    max_value,
    combineds,   \* every combined value computed so far
    ret,         \* the table the chunk returned
    \* ---- one call of a native callback from a chunk (src/main.rs 61-80)
    cpc,
    call,        \* [fn, args]
    cret         \* its outcome

vars == << pc, created, globals, warm_i, evals, started, duration, result,
           error, output, value, decoded, spc, s_i, sum, operations,
           max_value, combineds, ret, cpc, call, cret >>

mainVars == << pc, created, globals, warm_i, evals, started, duration,
               result, error, output >>
decodeVars == << value, decoded >>
scriptVars == << spc, s_i, sum, operations, max_value, combineds, ret >>
callVars == << cpc, call, cret >>

----------------------------------------------------------------------------
(* Numbers *)

\* f64 values are represented in units of 1/Scale.
Scale == 100

\* 2^16; a u32 is below U16Limit * U16Limit.
U16Limit == 65536

\* the range of u32 (the type of BenchmarkResult.operations)
InU32(i) == i >= 0 /\ (i \div U16Limit) < U16Limit

\* i as f64  (exact: every integer of the model is below 2^53)
IntToF64(i) == i * Scale

\* f64 -> integer part, rounding toward zero (Rust's `as`, num_traits::cast)
Trunc(n) == IF n >= 0 THEN n \div Scale ELSE -((-n) \div Scale)

IsIntegral(n) == n % Scale = 0

----------------------------------------------------------------------------
(* Dynamic values (mlua::Value) *)

FieldNames == {"result", "operations", "max_value"}

LuaNil == [type |-> "nil"]
LuaBoolean(b) == [type |-> "boolean", b |-> b]
LuaInteger(i) == [type |-> "integer", i |-> i]
LuaNumber(n) == [type |-> "number", n |-> n]
LuaString(s) == [type |-> "string", s |-> s]
LuaFunction == [type |-> "function"]
LuaTable(f) == [type |-> "table", fields |-> f]

\* Value::type_name()
TypeName(v) == v.type

\* The text -> number coercion of the interpreter on the strings of the model.
StringToNumber(s) ==
    CASE s = "1000" -> LuaInteger(1000)
      [] s = "42.5" -> LuaNumber(4250)
      [] OTHER -> LuaNil

IntegerSamples == {-1, 0, 1000, 15000000}
NumberSamples == {-150, -50, 0, 150, 4250, 9990, 100000}
StringSamples == {"abc", "1000", "42.5"}

EmptyTable == LuaTable([f \in FieldNames |-> LuaNil])

ScalarValues ==
    {LuaNil, LuaBoolean(TRUE), LuaFunction}
        \cup {LuaInteger(i) : i \in IntegerSamples}
        \cup {LuaNumber(n) : n \in NumberSamples}
        \cup {LuaString(s) : s \in StringSamples}

\* A field holds a scalar or a (nested) table; nil is an absent field.
FieldValues == (ScalarValues \ {LuaFunction}) \cup {EmptyTable}

Tables == {LuaTable(f) : f \in [FieldNames -> FieldValues]}

Values == ScalarValues \cup Tables

(* Used to state the claims *)

\* a Lua number, and its numeric value in units of 1/Scale
IsNumber(x) == x.type \in {"integer", "number"}
NumericValue(x) == IF x.type = "integer" THEN x.i * Scale ELSE x.n
\* a value f64 accepts: a number or a string that reads as one
IsNumeric(x) == IsNumber(x) \/ (x.type = "string" /\ x.s \in {"1000", "42.5"})

----------------------------------------------------------------------------
(* table.get::<T>(name): the raw field, then T::from_lua.  Outcomes are    *)
(* [ok |-> TRUE, v |-> x] or [ok |-> FALSE, e |-> cause].                  *)

Ok(x) == [ok |-> TRUE, v |-> x]
ConvErr(from, to, msg) ==
    [ok |-> FALSE, e |-> [from |-> from, to |-> to, message |-> msg]]

\* f64::from_lua: numbers and strings that read as numbers convert.
FromLuaF64(v) ==
    LET n == IF v.type = "string" THEN StringToNumber(v.s) ELSE v
    IN  CASE n.type = "integer" -> Ok(IntToF64(n.i))
          [] n.type = "number" -> Ok(n.n)
          [] OTHER -> ConvErr(TypeName(v), "f64",
                              "expected number or string coercible to number")

\* mutant of CastIntU32: the sign is not checked (an `as` cast)
CastIntU32Unsigned(ty, i) ==
    IF (i \div U16Limit) < U16Limit THEN {Ok(i)}
    ELSE {ConvErr(ty, "u32", "out of range")}

\* cast::<i64, u32>
CastIntU32(ty, i) ==
    IF InU32(i) THEN {Ok(i)} ELSE {ConvErr(ty, "u32", "out of range")}

\* u32::from_lua of a float with a fractional part.  The repository pins no
\* mlua release: a release either casts the float (num_traits::cast, which
\* drops the fraction of a float above -1 and in range) or rejects it.
CastFloatU32(ty, n) ==
    IF n > -Scale /\ InU32(Trunc(n))
    THEN {Ok(Trunc(n)), ConvErr(ty, "u32", "out of range")}
    ELSE {ConvErr(ty, "u32", "out of range")}

\* mutant of FromLuaU32: an absent field reads as 0
FromLuaU32NilAsZero(v) ==
    LET n == IF v.type = "string" THEN StringToNumber(v.s) ELSE v
    IN  CASE n.type = "integer" -> CastIntU32(TypeName(v), n.i)
          [] n.type = "number" ->
                IF IsIntegral(n.n) THEN CastIntU32(TypeName(v), n.n \div Scale)
                ELSE CastFloatU32(TypeName(v), n.n)
          [] v.type = "nil" -> {Ok(0)}
          [] OTHER -> {ConvErr(TypeName(v), "u32",
                               "expected number or string coercible to number")}

\* u32::from_lua: the set of outcomes.
FromLuaU32(v) ==
    LET n == IF v.type = "string" THEN StringToNumber(v.s) ELSE v
    IN  CASE n.type = "integer" -> CastIntU32(TypeName(v), n.i)
          [] n.type = "number" ->
                IF IsIntegral(n.n) THEN CastIntU32(TypeName(v), n.n \div Scale)
                ELSE CastFloatU32(TypeName(v), n.n)
          [] OTHER -> {ConvErr(TypeName(v), "u32",
                               "expected number or string coercible to number")}

----------------------------------------------------------------------------
(* BenchmarkResult::from_lua *)

NoCause == [from |-> "", to |-> "", message |-> ""]

\* Error::FromLuaConversionError { from, to, message } of lines 17-21,
\* 26-30, 35-39: message = "Failed to get '<field>' field: <cause>"
FieldError(field, cause) ==
    [variant |-> "FromLuaConversionError", from |-> "Table",
     to |-> "BenchmarkResult",
     message |-> [text |-> "Failed to get field", field |-> field,
                  cause |-> cause]]

\* mutant of ShapeError: from is the "Table" of the field errors
ShapeErrorFromTable(v) ==
    [variant |-> "FromLuaConversionError", from |-> "Table",
     to |-> "BenchmarkResult",
     message |-> [text |-> "Expected a table with result, operations, and max_value fields",
                  field |-> "", cause |-> [from |-> "", to |-> "", message |-> ""]]]

\* the error of lines 47-53
ShapeError(v) ==
    [variant |-> "FromLuaConversionError", from |-> TypeName(v),
     to |-> "BenchmarkResult",
     message |-> [text |-> "Expected a table with result, operations, and max_value fields",
                  field |-> "", cause |-> NoCause]]

NoError == [variant |-> "none"]
NoResult == [none |-> TRUE]

BenchmarkResult(r, o, m) == [result |-> r, operations |-> o, max_value |-> m]

\* an outcome of from_lua: Ok(record) or Err(error), with the fields it looked up
Decoded(rec, lookups) == [ok |-> TRUE, rec |-> rec, err |-> NoError, lookups |-> lookups]
Failed(err, lookups) == [ok |-> FALSE, rec |-> NoResult, err |-> err, lookups |-> lookups]

\* mutant of GetMaxValue: result and max_value change places in the record
GetMaxValueSwapped(table, r, o) ==
    LET m == FromLuaF64(table.fields["max_value"])
        looked == <<"result", "operations", "max_value">>
    IN  IF m.ok THEN Decoded(BenchmarkResult(m.v, o, r), looked)
        ELSE Failed(FieldError("max_value", m.e), looked)

\* lines 32-45, given result r and operations o
GetMaxValue(table, r, o) ==
    LET m == FromLuaF64(table.fields["max_value"])
        looked == <<"result", "operations", "max_value">>
    IN  IF m.ok THEN Decoded(BenchmarkResult(r, o, m.v), looked)
        ELSE Failed(FieldError("max_value", m.e), looked)

\* mutant of GetOperations: max_value is looked up before the error of
\* operations is returned
GetOperationsThenMaxValue(table, r) ==
    { IF o.ok THEN GetMaxValue(table, r, o.v)
      ELSE Failed(FieldError("operations", o.e),
                  <<"result", "operations", "max_value">>)
        : o \in FromLuaU32(table.fields["operations"]) }

\* lines 23-45, given result r
GetOperations(table, r) ==
    { IF o.ok THEN GetMaxValue(table, r, o.v)
      ELSE Failed(FieldError("operations", o.e), <<"result", "operations">>)
        : o \in FromLuaU32(table.fields["operations"]) }

\* lines 13-46
FromLuaTable(table) ==
    LET r == FromLuaF64(table.fields["result"])
    IN  IF r.ok THEN GetOperations(table, r.v)
        ELSE {Failed(FieldError("result", r.e), <<"result">>)}

\* lines 11-55: the set of outcomes of from_lua(value)
FromLua(v) ==
    IF v.type = "table" THEN FromLuaTable(v)
    ELSE {Failed(ShapeError(v), << >>)}

Pending == [pending |-> TRUE]

----------------------------------------------------------------------------
(* Idle values: the part of the state a specification does not use *)

NoDuration == -1

MainIdle ==
    /\ pc = "idle" /\ created = {} /\ globals = {} /\ warm_i = 0
    /\ evals = 0 /\ started = FALSE /\ duration = NoDuration
    /\ result = NoResult /\ error = NoError /\ output = << >>

DecodeIdle == value = LuaNil /\ decoded = Pending

ScriptIdle ==
    /\ spc = "idle" /\ s_i = 0 /\ sum = 0 /\ operations = 0
    /\ max_value = 0 /\ combineds = {} /\ ret = LuaNil

CallIdle == cpc = "idle" /\ call = [fn |-> "", args |-> << >>] /\ cret = Pending

----------------------------------------------------------------------------
(* One call of BenchmarkResult::from_lua on any value *)

InitDecode ==
    /\ value \in Values /\ decoded = Pending
    /\ MainIdle /\ ScriptIdle /\ CallIdle

DecodeValue ==
    /\ decoded = Pending
    /\ \E o \in FromLua(value) : decoded' = o
    /\ UNCHANGED << value, mainVars, scriptVars, callVars >>

NextDecode == DecodeValue

SpecDecode == InitDecode /\ [][NextDecode]_vars

----------------------------------------------------------------------------
(* main *)

\* for i in 0..5000 (line 85)
WarmupIterations == 5000
\* the 5_000_000 of lines 100, 137 and 141
IterationCount == 5000000

CallbackNames == {"length_fast", "distance", "complex_calc"}

\* start.elapsed() in nanoseconds
Durations == {0, 750000000}

Line(label, v) == [label |-> label, v |-> v]
Printed(label) == \E k \in 1..Len(output) : output[k].label = label

\* an mlua::Error other than from_lua's (allocation, a runtime error of a chunk)
LuaError(step) == [variant |-> "LuaError", step |-> step]

\* `?`: main returns the Err
Fail(e) ==
    /\ pc' = "failed"
    /\ error' = e
    /\ UNCHANGED << created, globals, warm_i, evals, started, duration,
                    result, output, value, decoded >>

\* mutant of DurationDiv: a division that yields a value for n = 0
DurationDivUnchecked(d, n) ==
    [ok |-> TRUE, v |-> IF n = 0 THEN 0 ELSE d \div n]

\* Duration / u32 (impl Div<u32> for Duration): checked_div(rhs).expect(..)
DurationDiv(d, n) ==
    IF n = 0 THEN [ok |-> FALSE, v |-> 0] ELSE [ok |-> TRUE, v |-> d \div n]

InitMain ==
    /\ pc = "create_length_fast" /\ created = {} /\ globals = {}
    /\ warm_i = 0 /\ evals = 0 /\ started = FALSE /\ duration = NoDuration
    /\ result = NoResult /\ error = NoError /\ output = << >>
    /\ DecodeIdle /\ ScriptIdle /\ CallIdle

\* lua.create_function(..)?  (lines 61-62, 64-68, 70-80)
CreateFunction(name, next) ==
    /\ pc = "create_" \o name
    /\ \/ /\ created' = created \cup {name}
          /\ pc' = next
          /\ UNCHANGED << globals, warm_i, evals, started, duration, result,
                          error, output, value, decoded >>
       \/ Fail(LuaError(pc))
    /\ UNCHANGED << scriptVars, callVars >>

\* mutant of SetGlobal: the Err of set() is dropped and main goes on
SetGlobalIgnoringErr(name, next) ==
    /\ pc = "set_" \o name
    /\ \/ globals' = globals \cup {name}
       \/ globals' = globals
    /\ pc' = next
    /\ UNCHANGED << created, warm_i, evals, started, duration, result,
                    error, output, value, decoded, scriptVars, callVars >>

\* lua.globals().set(name, f)?  (lines 81-83)
SetGlobal(name, next) ==
    /\ pc = "set_" \o name
    /\ \/ /\ globals' = globals \cup {name}
          /\ pc' = next
          /\ UNCHANGED << created, warm_i, evals, started, duration, result,
                          error, output, value, decoded >>
       \/ Fail(LuaError(pc))
    /\ UNCHANGED << scriptVars, callVars >>

\* the position after the third evaluation of a warm-up iteration (line 85)
AfterWarmup(i) == IF i < WarmupIterations THEN "warm_length_fast" ELSE "start"

\* let _: f64 = lua.load("return <name>(..)").eval()?  (lines 87-91):
\* the chunk fails when <name> is not a global, and may fail otherwise
WarmEval(name, last) ==
    /\ pc = "warm_" \o name
    /\ \/ /\ name \in globals
          /\ evals' = evals + 1
          /\ warm_i' = IF last THEN warm_i + 1 ELSE warm_i
          /\ pc' = CASE name = "length_fast" -> "warm_distance"
                     [] name = "distance" -> "warm_complex_calc"
                     [] OTHER -> AfterWarmup(warm_i + 1)
          /\ UNCHANGED << created, globals, started, duration, result,
                          error, output, value, decoded >>
       \/ /\ pc' = "failed"
          /\ error' = LuaError(pc)
          /\ evals' = evals + 1
          /\ UNCHANGED << created, globals, warm_i, started, duration,
                          result, output, value, decoded >>
    /\ UNCHANGED << scriptVars, callVars >>

\* lines 128-129
Start ==
    /\ pc = "start"
    /\ output' = Append(output, Line("Starting enhanced benchmark...", 0))
    /\ started' = TRUE
    /\ pc' = "eval"
    /\ UNCHANGED << created, globals, warm_i, evals, duration, result, error,
                    value, decoded, scriptVars, callVars >>

\* let result: BenchmarkResult = lua.load(script).eval()?  (line 130): the
\* chunk fails, or returns a value v that from_lua decodes or rejects.  The
\* chunk of lines 94-126 returns the table of Return (SpecScript); here the
\* run is followed for any value a chunk can return.
EvalBenchmark ==
    /\ pc = "eval"
    /\ evals' = evals + 1
    /\ \/ /\ pc' = "failed"
          /\ error' = LuaError(pc)
          /\ UNCHANGED << result, value, decoded >>
       \/ \E v \in Values : \E o \in FromLua(v) :
            /\ value' = v
            /\ decoded' = o
            /\ IF o.ok
               THEN pc' = "elapsed" /\ result' = o.rec /\ error' = error
               ELSE pc' = "failed" /\ error' = o.err /\ result' = result
    /\ UNCHANGED << created, globals, warm_i, started, duration, output,
                    scriptVars, callVars >>

\* let duration = start.elapsed()  (line 131)
Elapsed ==
    /\ pc = "elapsed"
    /\ duration' \in Durations
    /\ pc' = "print_result"
    /\ UNCHANGED << created, globals, warm_i, evals, started, result, error,
                    output, value, decoded, scriptVars, callVars >>

\* lines 133-136
PrintResult ==
    /\ pc = "print_result"
    /\ output' = output \o << Line("Result", result.result),
                              Line("Total operations", result.operations),
                              Line("Maximum value encountered", result.max_value),
                              Line("Total time", duration) >>
    /\ pc' = "print_time_per_iteration"
    /\ UNCHANGED << created, globals, warm_i, evals, started, duration, result,
                    error, value, decoded, scriptVars, callVars >>

\* a panic: the process aborts at this line
Panic(msg) ==
    /\ pc' = "panicked"
    /\ error' = [variant |-> "panic", message |-> msg]
    /\ UNCHANGED output

\* println!(label, duration / n)  (lines 137 and 138)
PrintDurationDiv(at, label, n, next) ==
    /\ pc = at
    /\ LET q == DurationDiv(duration, n)
       IN  IF q.ok
           THEN /\ output' = Append(output, Line(label, q.v))
                /\ pc' = next
                /\ error' = error
           ELSE Panic("divide by zero error when dividing duration by scalar")
    /\ UNCHANGED << created, globals, warm_i, evals, started, duration, result,
                    value, decoded, scriptVars, callVars >>

\* line 137
PrintTimePerIteration ==
    PrintDurationDiv("print_time_per_iteration", "Time per iteration",
                     IterationCount, "print_time_per_operation")

\* line 138
PrintTimePerOperation ==
    PrintDurationDiv("print_time_per_operation", "Time per operation",
                     result.operations, "print_rates")

\* a / b on f64, kept as the quotient's two terms (b = 0 prints inf or NaN)
Ratio(a, b) == [num |-> a, den |-> b]

\* lines 139-148
PrintRates ==
    /\ pc = "print_rates"
    /\ output' = output \o
            << Line("Iterations per second", Ratio(IterationCount, duration)),
               Line("Operations per second", Ratio(result.operations, duration)) >>
    /\ pc' = "done"
    /\ UNCHANGED << created, globals, warm_i, evals, started, duration, result,
                    error, value, decoded, scriptVars, callVars >>

Next ==
    \/ CreateFunction("length_fast", "create_distance")
    \/ CreateFunction("distance", "create_complex_calc")
    \/ CreateFunction("complex_calc", "set_length_fast")
    \/ SetGlobal("length_fast", "set_distance")
    \/ SetGlobal("distance", "set_complex_calc")
    \/ SetGlobal("complex_calc", AfterWarmup(0))
    \/ WarmEval("length_fast", FALSE)
    \/ WarmEval("distance", FALSE)
    \/ WarmEval("complex_calc", TRUE)
    \/ Start
    \/ EvalBenchmark
    \/ Elapsed
    \/ PrintResult
    \/ PrintTimePerIteration
    \/ PrintTimePerOperation
    \/ PrintRates

Spec == InitMain /\ [][Next]_vars

----------------------------------------------------------------------------
(* f64 arithmetic, rounded to the nearest unit of 1/Scale *)

\* p / q to the nearest integer, q > 0
Round(p, q) == (2 * p + q) \div (2 * q)

FMul(a, b) == Round(a * b, Scale)

RECURSIVE IsqrtBetween(_, _, _)
\* the largest r in lo..hi with r * r <= n
IsqrtBetween(n, lo, hi) ==
    IF lo >= hi THEN lo
    ELSE LET mid == (lo + hi + 1) \div 2
         IN  IF mid * mid <= n THEN IsqrtBetween(n, mid, hi)
             ELSE IsqrtBetween(n, lo, mid - 1)

\* r or r + 1, whichever is nearer to the square root of n (r its floor)
NearestRoot(n, r) == IF n - r * r > r THEN r + 1 ELSE r

\* f64::sqrt of a >= 0, to the nearest unit
FSqrt(a) == NearestRoot(a * Scale, IsqrtBetween(a * Scale, 0, 46340))

\* pi and pi / 2 in units of 1/Scale
Pi == (314 * Scale) \div 100
HalfPi == (157 * Scale) \div 100

\* f64::sin: the angle reduced to [0, 2 pi), then the rational approximation
\* 16 x (pi - x) / (5 pi^2 - 4 x (pi - x)) on [0, pi], negated on (pi, 2 pi)
SinReduced(x) ==
    Round(16 * x * (Pi - x) * Scale, 5 * Pi * Pi - 4 * x * (Pi - x))
SinOfReduced(x) == IF x <= Pi THEN SinReduced(x) ELSE -SinReduced(x - Pi)
FSin(a) == SinOfReduced(a % (2 * Pi))

\* f64::cos
FCos(a) == FSin(a + HalfPi)

FAbs(a) == IF a < 0 THEN -a ELSE a

\* f64::tan: sin / cos; the cosine of an f64 angle is never exactly 0, the
\* smallest magnitude of the model stands for it
NonZero(c) == IF c = 0 THEN 1 ELSE c
FDiv(s, d) == IF d > 0 THEN Round(s * Scale, d) ELSE -Round(s * Scale, -d)
FTan(a) == FDiv(FSin(a), NonZero(FCos(a)))

----------------------------------------------------------------------------
(* The native callbacks.  args are the Lua values of the call; the outcome *)
(* is Ok(the f64 returned) or the error of converting an argument.         *)

\* the first failure among the converted arguments, or Ok(tuple of f64)
ArgsOutcome(conv, arity) ==
    IF \A k \in 1..arity : conv[k].ok
    THEN Ok([k \in 1..arity |-> conv[k].v])
    ELSE conv[CHOOSE k \in 1..arity :
                ~conv[k].ok /\ \A j \in 1..(k - 1) : conv[j].ok]

\* the conversion of the argument tuple (x, y, ..): (f64, f64, ..); a
\* missing argument is nil
FromLuaArgs(args, arity) ==
    ArgsOutcome([k \in 1..arity |->
                    FromLuaF64(IF k <= Len(args) THEN args[k] ELSE LuaNil)],
                arity)

\* (x * x + y * y).sqrt()
Hypot(x, y) == FSqrt(FMul(x, x) + FMul(y, y))

\* mutant of LengthFastOf: y in place of y * y
LengthFastOfTypo(a) ==
    IF ~a.ok THEN a ELSE Ok(FSqrt(FMul(a.v[1], a.v[1]) + a.v[2]))

\* lines 61-62, on the converted arguments
LengthFastOf(a) == IF ~a.ok THEN a ELSE Ok(Hypot(a.v[1], a.v[2]))
LengthFast(args) == LengthFastOf(FromLuaArgs(args, 2))

\* lines 64-68, on the converted arguments
DistanceOf(a) ==
    IF ~a.ok THEN a ELSE Ok(Hypot(a.v[3] - a.v[1], a.v[4] - a.v[2]))
Distance(args) == DistanceOf(FromLuaArgs(args, 4))

\* lines 75-79
ComplexOf(angle, magnitude) ==
    IF magnitude > 10 * Scale
    THEN FMul(magnitude, (15 * Scale) \div 10) + FAbs(FTan(angle))
    ELSE FMul(magnitude, (8 * Scale) \div 10) + FSin(angle)

\* lines 70-80, on the converted arguments (angle, radius)
ComplexCalcOf(a) ==
    IF ~a.ok THEN a
    ELSE Ok(ComplexOf(a.v[1], Hypot(FMul(a.v[2], FCos(a.v[1])),
                                    FMul(a.v[2], FSin(a.v[1])))))
ComplexCalc(args) == ComplexCalcOf(FromLuaArgs(args, 2))

\* the global a chunk calls
Callback(fn, args) ==
    CASE fn = "length_fast" -> LengthFast(args)
      [] fn = "distance" -> Distance(args)
      [] OTHER -> ComplexCalc(args)

----------------------------------------------------------------------------
(* One chunk "return <fn>(args)" evaluated to an f64, as in lines 87-91 and *)
(* in test_lua_functions (line 164)                                        *)

LengthArgs ==
    {LuaInteger(i) : i \in {-3, 0, 1, 3, 4}}
        \cup {LuaNumber(n) : n \in {0, 50, 150, -400, 1250}}
        \cup {LuaNil, LuaString("abc"), LuaString("42.5")}
DistanceArgs == {LuaInteger(0), LuaInteger(3), LuaInteger(4), LuaNumber(150)}
AngleArgs == {LuaNumber(n) : n \in {0, 1, 78, 157, 200, 314, 400, 500, 627, 1000}}
RadiusArgs == {LuaInteger(i) : i \in {0, 5, 10, 15, 29}}

Calls ==
    {[fn |-> "length_fast", args |-> <<x, y>>] : x \in LengthArgs, y \in LengthArgs}
    \cup {[fn |-> "distance", args |-> <<a, b, c, d>>] :
                a \in DistanceArgs, b \in DistanceArgs,
                c \in DistanceArgs, d \in DistanceArgs}
    \cup {[fn |-> "complex_calc", args |-> <<a, r>>] :
                a \in AngleArgs, r \in RadiusArgs}

InitCall ==
    /\ cpc = "eval" /\ call \in Calls /\ cret = Pending
    /\ MainIdle /\ DecodeIdle /\ ScriptIdle

\* eval::<f64>() of what the callback returned
ReturnedF64(r) == IF r.ok THEN FromLuaF64(LuaNumber(r.v)) ELSE r

\* lua.load("return <fn>(args)").eval::<f64>(): the callback's error, or
\* the returned number converted to f64
EvalCall ==
    /\ cpc = "eval"
    /\ cret' = ReturnedF64(Callback(call.fn, call.args))
    /\ cpc' = "done"
    /\ UNCHANGED << call, mainVars, decodeVars, scriptVars >>

NextCall == EvalCall

SpecCall == InitCall /\ [][NextCall]_vars

----------------------------------------------------------------------------
(* Claims about the callbacks, checked under SpecCall *)

IsLengthCall == call.fn = "length_fast"
\* the f64 value of argument k, when it is a number
ArgValue(k) == NumericValue(call.args[k])
\* x^2 + y^2, exact, in units of 1/Scale^2
SumOfSquares == ArgValue(1) * ArgValue(1) + ArgValue(2) * ArgValue(2)

\* C8: length_fast(x, y) is sqrt(x*x + y*y) (within one unit of the
\* representation, never negative); from a chunk, length_fast(3, 4) is 5.0
\* and length_fast(0, 0) is 0.
C8_LengthFast ==
    (cpc = "done" /\ IsLengthCall
        /\ IsNumber(call.args[1]) /\ IsNumber(call.args[2])) =>
        /\ cret.ok
        /\ cret.v >= 0
        /\ cret.v > 0 => (cret.v - 1) * (cret.v - 1) <= SumOfSquares
        /\ SumOfSquares <= (cret.v + 1) * (cret.v + 1)
        /\ call.args = << LuaInteger(3), LuaInteger(4) >> => cret.v = 5 * Scale
        /\ call.args = << LuaInteger(0), LuaInteger(0) >> => cret.v = 0

\* "return length_fast(3, 4)" evaluated
C8_Witness ==
    /\ cpc = "done"
    /\ call = [fn |-> "length_fast", args |-> << LuaInteger(3), LuaInteger(4) >>]
    /\ cret = Ok(5 * Scale)

----------------------------------------------------------------------------
(* The benchmark chunk (lines 94-126) and the decoding of what it returns *)

\* the iterations of the loop the model runs
MaxIter == 1100

\* for i = 1, 5000000 (line 100), capped
LoopIterations == IF IterationCount < MaxIter THEN IterationCount ELSE MaxIter

\* mutant of CountOperations: one operation counted per iteration
CountOperationsByOne(ops) == ops + 1

\* operations = operations + 3  (line 110)
CountOperations(ops) == ops + 3

\* mutant of UpdateMax: the comparison reversed
UpdateMin(max, combined) == IF combined < max THEN combined ELSE max

\* if combined > max_value then max_value = combined end  (lines 112-114)
UpdateMax(max, combined) == IF combined > max THEN combined ELSE max

\* line 108, or the error of the first callback that failed
SumCombined(len, dist, complex) ==
    IF ~dist.ok THEN dist
    ELSE IF ~complex.ok THEN complex
    ELSE Ok(len.v + dist.v + complex.v)

\* lines 105-108, given len
CombinedWithLen(angle, radius, len) ==
    IF ~len.ok THEN len
    ELSE SumCombined(len,
                     Distance(<< LuaInteger(0), LuaInteger(0),
                                 LuaNumber(len.v), LuaNumber(angle) >>),
                     ComplexCalc(<< LuaNumber(angle), LuaInteger(radius) >>))

\* lines 104-108, given angle and radius
CombinedAt(angle, radius) ==
    CombinedWithLen(angle, radius,
        LengthFast(<< LuaNumber(FMul(IntToF64(radius), (5 * Scale) \div 10)),
                      LuaNumber(FMul(IntToF64(radius), (3 * Scale) \div 10)) >>))

\* lines 101-108 for the loop's i: Ok(combined), or a callback's error
Combined(i) ==
    CombinedAt(FMul(IntToF64(i % 628), Scale \div 100), 10 + (i % 20))

\* sum * 1.0001  (line 117)
ScaleSum(x) == x + Round(x, 10000)

\* lines 95-98
InitScript ==
    /\ spc = "loop" /\ s_i = 0 /\ sum = 0 /\ operations = 0 /\ max_value = 0
    /\ combineds = {} /\ ret = LuaNil
    /\ MainIdle /\ DecodeIdle /\ CallIdle

\* lines 108-118 of iteration i, c the outcome of lines 101-108
IterateWith(i, c) ==
    IF c.ok
    THEN /\ s_i' = i
         /\ combineds' = combineds \cup {c.v}
         /\ sum' = IF i % 1000 = 0 THEN ScaleSum(sum + c.v) ELSE sum + c.v
         /\ operations' = CountOperations(operations)
         /\ max_value' = UpdateMax(max_value, c.v)
         /\ spc' = spc
    ELSE /\ spc' = "failed"
         /\ UNCHANGED << s_i, combineds, sum, operations, max_value >>

\* one iteration of the loop (lines 100-119)
Iterate ==
    /\ spc = "loop"
    /\ s_i < LoopIterations
    /\ IterateWith(s_i + 1, Combined(s_i + 1))
    /\ UNCHANGED << ret, mainVars, decodeVars, callVars >>

\* lines 121-125
Return ==
    /\ spc = "loop"
    /\ s_i = LoopIterations
    /\ ret' = LuaTable([f \in FieldNames |->
                 CASE f = "result" -> LuaNumber(sum)
                   [] f = "operations" -> LuaInteger(operations)
                   [] OTHER -> LuaNumber(max_value)])
    /\ spc' = "returned"
    /\ UNCHANGED << s_i, sum, operations, max_value, combineds, mainVars,
                    decodeVars, callVars >>

\* the conversion of the returned table by eval()  (line 130)
DecodeReturned ==
    /\ spc = "returned"
    /\ value' = ret
    /\ \E o \in FromLua(ret) : decoded' = o
    /\ spc' = "decoded"
    /\ UNCHANGED << s_i, sum, operations, max_value, combineds, ret, mainVars,
                    callVars >>

NextScript == Iterate \/ Return \/ DecodeReturned

SpecScript == InitScript /\ [][NextScript]_vars

----------------------------------------------------------------------------
(* Claims about the chunk, checked under SpecScript *)

\* C6: the operation counter starts at 0 and grows by exactly 3 in every
\* iteration, so it is 3 k after k iterations; the loop's N iterations
\* return N * 3, which is decoded unchanged into the u32 field; for
\* N = 5,000,000 that is 15,000,000, within the range of u32.
C6_OperationsCount ==
    /\ operations = 3 * s_i
    /\ s_i <= LoopIterations
    /\ spc \in {"returned", "decoded"} =>
          /\ s_i = LoopIterations
          /\ ret.fields["operations"] = LuaInteger(3 * LoopIterations)
    /\ spc = "decoded" =>
          /\ decoded.ok
          /\ decoded.rec.operations = 3 * LoopIterations
    /\ 3 * IterationCount = 15000000
    /\ 3 * IterationCount >= 0
    /\ (3 * IterationCount) \div U16Limit < U16Limit

\* the loop ran to its end and its count was decoded
C6_Witness ==
    /\ spc = "decoded"
    /\ s_i = LoopIterations
    /\ s_i >= 1000
    /\ decoded.ok
    /\ decoded.rec.operations = operations

\* C9: max_value starts at 0.0; after every iteration it is at least every
\* combined value computed so far and is 0.0 or one of them; the max_value
\* returned is the maximum of the combined values of the loop.
C9_MaxValue ==
    /\ s_i = 0 => max_value = 0
    /\ \A c \in combineds : max_value >= c
    /\ max_value = 0 \/ max_value \in combineds
    /\ (spc \in {"returned", "decoded"} /\ combineds # {}) =>
          /\ ret.fields["max_value"] = LuaNumber(max_value)
          /\ max_value \in combineds
          /\ \A c \in combineds : ret.fields["max_value"].n >= c

\* the chunk returned after a loop in which the maximum rose several times
C9_Witness ==
    /\ spc = "returned"
    /\ Cardinality(combineds) > 100
    /\ ret.fields["max_value"].n = max_value
    /\ max_value \in combineds

----------------------------------------------------------------------------
(* Claims about main, checked under Spec *)

ReportLabels ==
    {"Result", "Total operations", "Maximum value encountered", "Total time",
     "Time per iteration", "Time per operation", "Iterations per second",
     "Operations per second"}

ReportPrinted == \E l \in ReportLabels : Printed(l)

HasResult == result # NoResult

\* C5: with operations = 0 the division of line 138 is signalled (the run
\* panics there): no "Time per operation" line is ever printed for it and
\* the run never goes on to the later lines or to a successful end.
C5_ZeroOperationsSignalled ==
    /\ (HasResult /\ result.operations = 0) =>
          /\ ~Printed("Time per operation")
          /\ ~Printed("Operations per second")
          /\ pc \notin {"print_rates", "done"}
          /\ Printed("Time per iteration") =>
                pc \in {"print_time_per_operation", "panicked"}
    /\ pc = "panicked" =>
          /\ error.variant = "panic"
          /\ HasResult /\ result.operations = 0
    /\ Printed("Time per operation") => result.operations # 0

\* the run panicked at line 138 on a decoded operations of 0
C5_Witness ==
    /\ pc = "panicked"
    /\ HasResult
    /\ result.operations = 0
    /\ Printed("Time per iteration")
    /\ ~Printed("Time per operation")

\* C7: a run that failed at a step ends with that error and executes no
\* later step: the elapsed time is not taken and no report line is printed;
\* every callback is created and bound before any chunk is evaluated, and
\* the report lines are printed only after a successful decode.
C7_FailureAborts ==
    /\ pc = "failed" =>
          /\ error # NoError
          /\ duration = NoDuration
          /\ result = NoResult
          /\ ~ReportPrinted
          /\ ~ENABLED Next
    /\ error # NoError => pc \in {"failed", "panicked"}
    /\ evals > 0 => (created = CallbackNames /\ globals = CallbackNames)
    /\ duration # NoDuration => (HasResult /\ started)
    /\ ReportPrinted =>
          /\ HasResult
          /\ decoded # Pending /\ decoded.ok /\ decoded.rec = result
          /\ duration # NoDuration

\* the chunk returned a value that from_lua rejected, after the clock started
C7_Witness ==
    /\ pc = "failed"
    /\ started
    /\ decoded # Pending
    /\ ~decoded.ok
    /\ error = decoded.err
    /\ output = << Line("Starting enhanced benchmark...", 0) >>

----------------------------------------------------------------------------
(* Claims about from_lua, checked under SpecDecode *)

Field(name) == value.fields[name]
IsTable == value.type = "table"
DecodeDone == decoded # Pending

\* a Lua number whose value is a whole number in the range of u32
IsU32Integer(x) ==
    /\ IsNumber(x)
    /\ NumericValue(x) % Scale = 0
    /\ NumericValue(x) >= 0
    /\ (NumericValue(x) \div Scale) \div U16Limit < U16Limit

WellTyped ==
    /\ IsTable
    /\ IsNumber(Field("result"))
    /\ IsU32Integer(Field("operations"))
    /\ IsNumber(Field("max_value"))

\* C1: decoding a table whose three fields are present and well-typed
\* succeeds, and the three fields of the BenchmarkResult are exactly the
\* three values stored in the table.
C1_WellFormedDecodes ==
    (DecodeDone /\ WellTyped) =>
        /\ decoded.ok
        /\ decoded.rec.result = NumericValue(Field("result"))
        /\ decoded.rec.operations * Scale = NumericValue(Field("operations"))
        /\ decoded.rec.max_value = NumericValue(Field("max_value"))

\* the table of test_benchmark_result_parsing, decoded
C1_Witness ==
    /\ DecodeDone
    /\ IsTable
    /\ Field("result") = LuaNumber(4250)
    /\ Field("operations") = LuaInteger(1000)
    /\ Field("max_value") = LuaNumber(9990)
    /\ decoded.ok
    /\ decoded.rec = BenchmarkResult(4250, 1000, 9990)

\* C2: for every value that is not a table, from_lua fails with the
\* shape-mismatch error, which carries the value's dynamic type name and
\* the expected type name "BenchmarkResult"; no field is looked up and the
\* error is not a field-access error.
C2_NonTableShapeMismatch ==
    (DecodeDone /\ ~IsTable) =>
        /\ ~decoded.ok
        /\ decoded.rec = NoResult
        /\ decoded.err.variant = "FromLuaConversionError"
        /\ decoded.err.from = value.type
        /\ decoded.err.from # "Table"
        /\ decoded.err.to = "BenchmarkResult"
        /\ decoded.err.message.text # "Failed to get field"
        /\ decoded.err.message.field = ""
        /\ decoded.lookups = << >>

\* a plain number, decoded
C2_Witness ==
    /\ DecodeDone
    /\ value = LuaNumber(4250)
    /\ ~decoded.ok
    /\ decoded.err.from = "number"

\* C3 as stated: for every table without an operations field, from_lua
\* returns an error and that error names 'operations'.
C3_MissingOperations_Original ==
    (DecodeDone /\ IsTable /\ Field("operations") = LuaNil) =>
        /\ ~decoded.ok
        /\ decoded.err.message.field = "operations"

\* C3 amended: for every table without an operations field, from_lua
\* returns an error; the error names 'operations' when the result field
\* converts to f64, and names 'result' (the field looked up first) when it
\* does not.
C3_MissingOperations ==
    (DecodeDone /\ IsTable /\ Field("operations") = LuaNil) =>
        /\ ~decoded.ok
        /\ decoded.rec = NoResult
        /\ decoded.err.message.text = "Failed to get field"
        /\ decoded.err.message.field =
              IF IsNumeric(Field("result")) THEN "operations" ELSE "result"
        /\ IsNumeric(Field("result")) =>
              /\ decoded.err.message.cause.from = "nil"
              /\ decoded.err.message.cause.to = "u32"

\* {result = 42.5, max_value = 99.9}, decoded
C3_Witness ==
    /\ DecodeDone
    /\ IsTable
    /\ Field("result") = LuaNumber(4250)
    /\ Field("operations") = LuaNil
    /\ Field("max_value") = LuaNumber(9990)
    /\ ~decoded.ok
    /\ decoded.err.message.field = "operations"

\* what distinguishes one error of from_lua from another, its cause aside
ErrorKind(e) == << e.variant, e.from, e.to, e.message.text >>

\* the error from_lua returns for this table with operations removed
MissingOperationsError ==
    (CHOOSE o \in FromLua([value EXCEPT !.fields["operations"] = LuaNil]) : TRUE).err

OthersWellFormed ==
    IsTable /\ IsNumber(Field("result")) /\ IsNumber(Field("max_value"))

IsNegative(x) == IsNumber(x) /\ NumericValue(x) < 0
IsFractional(x) == IsNumber(x) /\ NumericValue(x) % Scale # 0
\* at most -1
IsBelowZeroInteger(x) == IsNumber(x) /\ NumericValue(x) <= -Scale

OutOfRangeFailure ==
    /\ ~decoded.ok
    /\ decoded.rec = NoResult
    /\ decoded.err.message.field = "operations"
    /\ decoded.err.message.cause.to = "u32"
    /\ decoded.err.message.cause.message = "out of range"
    /\ ErrorKind(decoded.err) = ErrorKind(MissingOperationsError)
    /\ decoded.err.message.cause # MissingOperationsError.message.cause

LookupOrder == <<"result", "operations", "max_value">>

\* an operations value every u32 conversion rejects
RejectedOperations(x) ==
    \/ ~IsNumeric(x)
    \/ (IsNumber(x) /\ NumericValue(x) <= -Scale)

\* C10: on a table from_lua looks the fields up in the order result,
\* operations, max_value and stops at the first lookup that fails: the
\* error names that field and no later field is looked up; a BenchmarkResult
\* is returned only when all three lookups succeeded, with all its fields.
C10_FirstFailureStops ==
    (DecodeDone /\ IsTable) =>
        /\ Len(decoded.lookups) \in 1..3
        /\ decoded.lookups = SubSeq(LookupOrder, 1, Len(decoded.lookups))
        /\ ~decoded.ok =>
              /\ decoded.rec = NoResult
              /\ decoded.err.message.field = decoded.lookups[Len(decoded.lookups)]
        /\ decoded.ok =>
              /\ decoded.lookups = LookupOrder
              /\ DOMAIN decoded.rec = FieldNames
              /\ \A f \in FieldNames : IsNumeric(Field(f))
        /\ ~IsNumeric(Field("result")) => decoded.lookups = <<"result">>
        /\ (IsNumeric(Field("result")) /\ RejectedOperations(Field("operations")))
              => decoded.lookups = <<"result", "operations">>
        /\ (Len(decoded.lookups) = 3 /\ ~decoded.ok) => ~IsNumeric(Field("max_value"))

\* operations fails while max_value would fail too: max_value is not reached
C10_Witness ==
    /\ DecodeDone
    /\ IsTable
    /\ IsNumeric(Field("result"))
    /\ Field("operations") = LuaNil
    /\ Field("max_value") = LuaNil
    /\ ~decoded.ok
    /\ decoded.lookups = <<"result", "operations">>

====
